---- MODULE Spec2Model ----
(***************************************************************************)
(* Model of server.js: the /api/search aggregation pipeline                *)
(* (rxnormLookup -> geocodeText -> findPharmacies -> enrich -> filter ->   *)
(* sort), its two lookup caches and its error mapping.                     *)
(*                                                                         *)
(* Representation of JavaScript values                                     *)
(*   - a string is a sequence of one-character strings;                    *)
(*   - a number is a record [k, v]: k = "num" with the integer v,          *)
(*     k = "nan", k = "inf" (+Infinity), k = "ninf" (-Infinity);           *)
(*   - null / undefined where a number is expected is k = "null";          *)
(*   - money is counted in cents and distance in hundredths of a km, so    *)
(*     that toFixed(2) results are integers;                               *)
(*   - an unsigned 32-bit integer is a pair [hi, lo] of 16-bit halves      *)
(*     (TLC's integers are 32-bit signed and cannot hold 2^32 - 1).        *)
(***************************************************************************)
EXTENDS Integers, Sequences, FiniteSets, TLC

VARIABLES
    GEOAPIFY_KEY,   \* server.js:14, TRUE when the credential is configured
    cache,          \* server.js:17-20, [geocode, rxnorm], each a Map (a function on its keys)
    query,          \* req.query of every request handled in the run
    pc,             \* where each request's handler is suspended (its pending await)
    drug,           \* the handler's local `drug` (server.js:173)
    geo,            \* the handler's local `geo` (server.js:178)
    places,         \* the handler's local `places` (server.js:181)
    calls,          \* the upstream calls each request has issued, in order
    failure,        \* the error the failed upstream call of a request threw
    responses,      \* what the handler has sent through `res`, in order
    pharmacies      \* the facilities the places provider knows about

vars == <<GEOAPIFY_KEY, cache, query, pc, drug, geo, places, calls, failure, responses, pharmacies>>

----------------------------------------------------------------------------
(* JavaScript numbers *)

Num(n) == [k |-> "num", v |-> n]
NaN == [k |-> "nan", v |-> 0]
Infinity == [k |-> "inf", v |-> 0]
NegInfinity == [k |-> "ninf", v |-> 0]
Null == [k |-> "null", v |-> 0]

IsNum(x) == x.k = "num"

\* Mutant: a ?? 0
OrZero(x) == IF x.k = "null" THEN Num(0) ELSE x

\* a ?? Infinity (server.js:200): only null and undefined are replaced
OrInfinity(x) == IF x.k = "null" THEN Infinity ELSE x

\* a - b on numbers and infinities
Minus(a, b) ==
    CASE a.k = "nan" \/ b.k = "nan" -> NaN
      [] a.k = "num" /\ b.k = "num" -> Num(a.v - b.v)
      [] a.k = "inf" /\ b.k = "inf" -> NaN
      [] a.k = "ninf" /\ b.k = "ninf" -> NaN
      [] a.k = "inf" \/ b.k = "ninf" -> Infinity
      [] OTHER -> NegInfinity

\* a * n for a positive integer n
Times(a, n) == IF a.k = "num" THEN Num(a.v * n) ELSE a

\* Math.min(a, b), Math.max(a, b): NaN if either argument is NaN
MathMin(a, b) ==
    CASE a.k = "nan" \/ b.k = "nan" -> NaN
      [] a.k = "ninf" \/ b.k = "ninf" -> NegInfinity
      [] a.k = "inf" -> b
      [] b.k = "inf" -> a
      [] OTHER -> IF a.v <= b.v THEN a ELSE b

MathMax(a, b) ==
    CASE a.k = "nan" \/ b.k = "nan" -> NaN
      [] a.k = "inf" \/ b.k = "inf" -> Infinity
      [] a.k = "ninf" -> b
      [] b.k = "ninf" -> a
      [] OTHER -> IF a.v >= b.v THEN a ELSE b

\* a >= b and a <= b: false whenever an operand is NaN
Geq(a, b) == a.k = "num" /\ b.k = "num" /\ a.v >= b.v
Leq(a, b) == a.k = "num" /\ b.k = "num" /\ a.v <= b.v

----------------------------------------------------------------------------
(* JavaScript strings *)

Digits == <<"0", "1", "2", "3", "4", "5", "6", "7", "8", "9">>

IsDigit(c) == \E i \in 1..10 : Digits[i] = c
DigitVal(c) == (CHOOSE i \in 1..10 : Digits[i] = c) - 1

\* String.prototype.charCodeAt for the characters the model uses
charCodeAt(c) ==
    CASE IsDigit(c) -> 48 + DigitVal(c)
      [] c = " " -> 32
      [] c = "-" -> 45
      [] c = "A" -> 65
      [] c = "B" -> 66
      [] c = "a" -> 97
      [] c = "b" -> 98
      [] c = "c" -> 99
      [] c = "d" -> 100
      [] c = "e" -> 101
      [] c = "f" -> 102
      [] c = "x" -> 120

\* String.prototype.toLowerCase
LowerChar(c) == CASE c = "A" -> "a" [] c = "B" -> "b" [] c = "X" -> "x" [] OTHER -> c
toLowerCase(s) == [i \in 1..Len(s) |-> LowerChar(s[i])]

\* String.prototype.trim
RECURSIVE TrimStart(_)
TrimStart(s) == IF s # <<>> /\ Head(s) = " " THEN TrimStart(Tail(s)) ELSE s
RECURSIVE TrimEnd(_)
TrimEnd(s) ==
    IF s # <<>> /\ s[Len(s)] = " " THEN TrimEnd(SubSeq(s, 1, Len(s) - 1)) ELSE s
trim(s) == TrimEnd(TrimStart(s))

\* String(n) for a non-negative integer n: its decimal digits
RECURSIVE DecimalDigits(_)
DecimalDigits(n) ==
    IF n < 10 THEN <<Digits[n + 1]>>
    ELSE Append(DecimalDigits(n \div 10), Digits[(n % 10) + 1])

\* An identifier is a string (Geoapify place_id, RxNorm rxcui) or a number
\* (Overpass element id).
StrId(s) == [t |-> "str", n |-> 0, s |-> s]
NumId(n) == [t |-> "num", n |-> n, s |-> <<>>]
String(id) == IF id.t = "num" THEN DecimalDigits(id.n) ELSE id.s

\* Number(s) for a query-string value: optional sign and decimal digits; the
\* empty string is 0; anything else is NaN.
RECURSIVE DigitsValue(_)
DigitsValue(s) ==
    IF s = <<>> THEN 0 ELSE DigitsValue(SubSeq(s, 1, Len(s) - 1)) * 10 + DigitVal(s[Len(s)])
AllDigits(s) == s # <<>> /\ \A i \in 1..Len(s) : IsDigit(s[i])
Number(s) ==
    LET t == trim(s) IN
    CASE t = <<>> -> Num(0)
      [] AllDigits(t) -> Num(DigitsValue(t))
      [] Head(t) = "-" /\ AllDigits(Tail(t)) -> Num(0 - DigitsValue(Tail(t)))
      [] OTHER -> NaN

----------------------------------------------------------------------------
(* seedNum, simulatePrice, simulateStock (server.js:27-44) *)

Half == 65536

U32(hi, lo) == [hi |-> hi, lo |-> lo]

\* Mutant: the multiplier is 33
seedStep33(h, c) ==
    LET low == h.lo * 33 + c
        high == h.hi * 33 + (low \div Half)
    IN [hi |-> high % Half, lo |-> low % Half]

\* (h * 31 + c) >>> 0 on the two halves of h
seedStep(h, c) ==
    LET low == h.lo * 31 + c
        high == h.hi * 31 + (low \div Half)
    IN U32(high % Half, low % Half)

RECURSIVE seedLoop(_, _, _)
seedLoop(str, i, h) ==
    IF i > Len(str) THEN h ELSE seedLoop(str, i + 1, seedStep(h, charCodeAt(str[i])))

seedNum(str) == seedLoop(str, 1, U32(0, 0))

\* h % m for a small m
Mod(h, m) == ((h.hi % m) * (Half % m) + (h.lo % m)) % m

\* Number((base + variation).toFixed(2)), in cents
simulatePrice(rxcui, placeId) ==
    LET base == 10 + Mod(seedNum(String(rxcui)), 40)
        variationCents == Mod(seedNum(String(placeId)), 200)
    IN Num(base * 100 + variationCents)

\* Mutant: the thresholds are inclusive
simulateStockInclusive(placeId) ==
    LET v == Mod(seedNum(String(placeId)), 100) IN
    IF v <= 10 THEN "out_of_stock"
    ELSE IF v <= 35 THEN "low_stock"
    ELSE "in_stock"

simulateStock(placeId) ==
    LET v == Mod(seedNum(String(placeId)), 100) IN
    IF v < 10 THEN "out_of_stock"
    ELSE IF v < 35 THEN "low_stock"
    ELSE "in_stock"

----------------------------------------------------------------------------
(* Optional values: <<>> is null / undefined, <<x>> is the value x *)

None == <<>>
Some(x) == <<x>>

----------------------------------------------------------------------------
(* upstreamError, extractError (server.js:224-235) *)

\* An error thrown by axios: with the upstream's HTTP response (a non-2xx
\* status) or without one (network failure, malformed payload).
NoResponse == [present |-> FALSE, status |-> 0, data |-> ""]
HttpResponse(status) == [present |-> TRUE, status |-> status, data |-> "upstream-payload"]
AxiosError(response) == [message |-> "Request failed", response |-> response, cause |-> None]

\* Mutant: the callee rethrows the axios error instead of wrapping it
upstreamErrorRethrown(message, err) == err

\* new Error(message) with e.cause = err: the wrapper has no `response`
upstreamError(message, err) ==
    [message |-> message, response |-> NoResponse, cause |-> Some(err)]

\* The JSON body of a response: `keys` are the properties it carries.
Body(keys) ==
    [keys |-> keys, error |-> "", suggestions |-> <<>>, status |-> 0, data |-> "",
     med |-> [name |-> None, rxcui |-> None], location |-> [text |-> <<>>, coord |-> None],
     total |-> 0, items |-> <<>>]

\* Mutant: the upstream response is looked up on the wrapped error's cause
extractErrorOfCause(err) ==
    LET inner == IF err.cause # None THEN err.cause[1] ELSE err IN
    IF inner.response.present
    THEN [Body({"status", "error", "data"}) EXCEPT
            !.status = inner.response.status, !.error = "Upstream error",
            !.data = inner.response.data]
    ELSE [Body({"status", "error"}) EXCEPT !.status = 502, !.error = err.message]

extractError(err) ==
    IF err.response.present
    THEN [Body({"status", "error", "data"}) EXCEPT
            !.status = err.response.status, !.error = "Upstream error",
            !.data = err.response.data]
    ELSE [Body({"status", "error"}) EXCEPT
            !.status = 502,
            !.error = IF err.message # "" THEN err.message ELSE "Unknown error"]

\* The catch block of the handler (server.js:208-211)
catchResponse(err) ==
    LET details == extractError(err) IN
    [status |-> IF details.status # 0 THEN details.status ELSE 502, body |-> details]

----------------------------------------------------------------------------
(* Parsing of req.query (server.js:162-168) *)

\* req.query.<name> is a non-empty string
Given(q, name) == name \in q.has

medOf(q) == trim(IF Given(q, "med") /\ q.med # <<>> THEN q.med ELSE <<>>)
locationOf(q) == trim(IF Given(q, "location") /\ q.location # <<>> THEN q.location ELSE <<>>)
radiusKmOf(q) ==
    IF Given(q, "radius_km") /\ q.radius_km # <<>> THEN Number(q.radius_km) ELSE Num(10)
priceMinOf(q) ==
    IF Given(q, "price_min") /\ q.price_min # <<>> THEN Number(q.price_min) ELSE Null
priceMaxOf(q) ==
    IF Given(q, "price_max") /\ q.price_max # <<>> THEN Number(q.price_max) ELSE Null
stockFilterOf(q) == IF Given(q, "stock") /\ q.stock # "" THEN q.stock ELSE "any"
sortByOf(q) == IF Given(q, "sort") /\ q.sort # "" THEN q.sort ELSE "distance"

\* Math.max(1000, Math.min(50000, radiusKm * 1000)) (server.js:181)
radiusMeters(q) == MathMax(Num(1000), MathMin(Num(50000), Times(radiusKmOf(q), 1000)))

----------------------------------------------------------------------------
(* rxnormLookup (server.js:46-76) *)

cacheKey(text) == toLowerCase(trim(text))

Has(map, key) == key \in DOMAIN map
Set(map, key, value) ==
    [k \in (DOMAIN map) \cup {key} |-> IF k = key THEN value ELSE map[k]]

\* String(p.name): the text "undefined" when the candidate has no name
StringOfName(name) ==
    IF name = None THEN <<"u", "n", "d", "e", "f", "i", "n", "e", "d">> ELSE name[1]

\* Mutant: every candidate replaces the one kept so far
RECURSIVE bestInPropsLast(_, _, _, _)
bestInPropsLast(props, i, best, key) ==
    IF i > Len(props) THEN best
    ELSE LET p == props[i] IN
         IF toLowerCase(StringOfName(p.name)) = key THEN Some(p)
         ELSE bestInPropsLast(props, i + 1, Some(p), key)

\* the inner loop over one group's conceptProperties (server.js:56-59); the
\* break leaves this loop only
RECURSIVE bestInProps(_, _, _, _)
bestInProps(props, i, best, key) ==
    IF i > Len(props) THEN best
    ELSE LET p == props[i]
             b == IF best = None THEN Some(p) ELSE best
         IN IF toLowerCase(StringOfName(p.name)) = key THEN Some(p)
            ELSE bestInProps(props, i + 1, b, key)

\* the outer loop over the concept groups (server.js:54-60)
RECURSIVE bestInGroups(_, _, _, _)
bestInGroups(groups, g, best, key) ==
    IF g > Len(groups) THEN best
    ELSE bestInGroups(groups, g + 1, bestInProps(groups[g], 1, best, key), key)

\* best.name is undefined when the candidate has no name
foundPayload(best) ==
    [rxcui |-> Some(best.rxcui), name |-> best.name, suggestions |-> <<>>]
\* Mutant: the first suggestion is reported as the name
notFoundPayloadNamed(suggestions) ==
    [rxcui |-> None,
     name |-> IF suggestions # <<>> THEN Some(suggestions[1]) ELSE None,
     suggestions |-> suggestions]

notFoundPayload(suggestions) ==
    [rxcui |-> None, name |-> None, suggestions |-> suggestions]

----------------------------------------------------------------------------
(* haversineKm, findPharmacies (server.js:107-156, 237-245) *)

Abs(n) == IF n < 0 THEN 0 - n ELSE n

\* Truthiness of a number: 0, NaN, null and undefined are falsy
Truthy(x) == x.k \in {"inf", "ninf"} \/ (x.k = "num" /\ x.v # 0)

\* a ?? b
Coalesce(a, b) == IF a.k = "null" THEN b ELSE a

\* The great-circle distance, in hundredths of a km.  Coordinates are points of
\* a small grid and the trigonometry is replaced by the grid distance, one
\* grid step being 1.5 km; as in the code the result is NaN when a coordinate
\* is not a number.
haversineKm(lat1, lon1, lat2, lon2) ==
    IF IsNum(lat1) /\ IsNum(lon1) /\ IsNum(lat2) /\ IsNum(lon2)
    THEN Num(150 * (Abs(lat2.v - lat1.v) + Abs(lon2.v - lon1.v)))
    ELSE NaN

\* Number((meters / 1000).toFixed(2)), in hundredths of a km
metersToKm(meters) == IF IsNum(meters) THEN Num((meters.v + 5) \div 10) ELSE meters

\* One Geoapify feature -> facility (server.js:113-121)
fromFeature(f, lat, lon) ==
    [id |-> f.id,
     distance_km |-> IF Truthy(f.distance) THEN metersToKm(f.distance)
                     ELSE haversineKm(lat, lon, f.lat, f.lon),
     lat |-> f.lat, lon |-> f.lon]

\* One Overpass element -> facility (server.js:137-152)
fromElement(e, lat, lon) ==
    LET pLat == Coalesce(e.lat, e.centerLat)
        pLon == Coalesce(e.lon, e.centerLon)
    IN [id |-> e.id,
        distance_km |-> IF Truthy(pLat) /\ Truthy(pLon)
                        THEN haversineKm(lat, lon, pLat, pLon) ELSE Null,
        lat |-> pLat, lon |-> pLon]

\* The value findPharmacies returns for the provider's list `raw`
findPharmacies(key, raw, lat, lon) ==
    [i \in 1..Len(raw) |->
        IF key THEN fromFeature(raw[i], lat, lon) ELSE fromElement(raw[i], lat, lon)]

----------------------------------------------------------------------------
(* Enrich, filter, sort (server.js:183-200) *)

enrich(found, rxcui) ==
    [i \in 1..Len(found) |->
        [id |-> found[i].id, distance_km |-> found[i].distance_km,
         lat |-> found[i].lat, lon |-> found[i].lon,
         price_usd |-> simulatePrice(StrId(rxcui), found[i].id),
         availability |-> simulateStock(found[i].id)]]

\* Array.prototype.filter is SelectSeq: it keeps the order of what it retains.
\* price_min and price_max are dollars, price_usd is in cents
filterPriceMin(items, priceMin) ==
    IF priceMin.k # "null"
    THEN LET Keep(i) == Geq(i.price_usd, Times(priceMin, 100)) IN SelectSeq(items, Keep)
    ELSE items
\* Mutant: the comparison is the one of price_min
filterPriceMaxFlipped(items, priceMax) ==
    IF priceMax.k # "null"
    THEN LET Keep(i) == Geq(i.price_usd, Times(priceMax, 100)) IN SelectSeq(items, Keep)
    ELSE items

filterPriceMax(items, priceMax) ==
    IF priceMax.k # "null"
    THEN LET Keep(i) == Leq(i.price_usd, Times(priceMax, 100)) IN SelectSeq(items, Keep)
    ELSE items
\* Mutant: only in_stock is recognised
filterStockInOnly(items, stockFilter) ==
    IF stockFilter = "in_stock"
    THEN LET Keep(i) == i.availability = stockFilter IN SelectSeq(items, Keep)
    ELSE items

filterStock(items, stockFilter) ==
    IF stockFilter \in {"in_stock", "low_stock"}
    THEN LET Keep(i) == i.availability = stockFilter IN SelectSeq(items, Keep)
    ELSE items

\* The comparators of server.js:198-200
compare(sortBy, a, b) ==
    CASE sortBy = "price_asc" -> Minus(a.price_usd, b.price_usd)
      [] sortBy = "price_desc" -> Minus(b.price_usd, a.price_usd)
      [] OTHER -> Minus(OrInfinity(a.distance_km), OrInfinity(b.distance_km))

\* Array.prototype.sort calls the comparator and takes a NaN result for +0
Before(sortBy, a, b) ==
    LET v == compare(sortBy, a, b) IN v.k = "ninf" \/ (v.k = "num" /\ v.v < 0)

\* Array.prototype.sort is stable: x goes after every element it is not
\* strictly before.
RECURSIVE insert(_, _, _)
insert(sorted, x, sortBy) ==
    IF sorted = <<>> THEN <<x>>
    ELSE LET last == sorted[Len(sorted)] IN
         IF Before(sortBy, x, last)
         THEN Append(insert(SubSeq(sorted, 1, Len(sorted) - 1), x, sortBy), last)
         ELSE Append(sorted, x)

RECURSIVE sortFrom(_, _, _, _)
sortFrom(items, i, sorted, sortBy) ==
    IF i > Len(items) THEN sorted
    ELSE sortFrom(items, i + 1, insert(sorted, items[i], sortBy), sortBy)

\* Mutant: the last branch is a plain else, any other value sorts by distance
sortItemsElseDistance(items, sortBy) ==
    IF sortBy \in {"price_asc", "price_desc"}
    THEN sortFrom(items, 1, <<>>, sortBy)
    ELSE sortFrom(items, 1, <<>>, "distance")

\* the if / else-if chain of server.js:198-200: any other value sorts nothing
sortItems(items, sortBy) ==
    IF sortBy \in {"price_asc", "price_desc", "distance"}
    THEN sortFrom(items, 1, <<>>, sortBy)
    ELSE items

\* server.js:184-207: the body of the successful response
searchResult(q, drugPayload, coord, found) ==
    LET enriched == enrich(found, drugPayload.rxcui[1])
        byMin == filterPriceMin(enriched, priceMinOf(q))
        byMax == filterPriceMax(byMin, priceMaxOf(q))
        byStock == filterStock(byMax, stockFilterOf(q))
        items == sortItems(byStock, sortByOf(q))
    IN [Body({"med", "location", "total", "items"}) EXCEPT
          !.med = [name |-> drugPayload.name, rxcui |-> drugPayload.rxcui],
          !.location = [text |-> locationOf(q), coord |-> Some(coord)],
          !.total = Len(items),
          !.items = items]

----------------------------------------------------------------------------
(* geocodeText (server.js:78-105) *)

\* parseFloat of a string of decimal digits; NaN when it does not start with one
parseFloat(s) == IF AllDigits(s) THEN Num(DigitsValue(s)) ELSE NaN

\* server.js:87-88 (Geoapify: numbers) and server.js:97-99 (Nominatim: strings)
geocodePayload(key, first) ==
    IF key THEN [lat |-> first.lat, lon |-> first.lon]
    ELSE [lat |-> parseFloat(first.lat), lon |-> parseFloat(first.lon)]

----------------------------------------------------------------------------
(* What the upstream services can answer *)

Requests == DOMAIN query

Upstream(api, provider, radius) == [api |-> api, provider |-> provider, radius |-> radius]

\* conceptProperties entries of drugs.json
propA == [rxcui |-> <<"7">>, name |-> Some(<<"A">>)]
propB == [rxcui |-> <<"2", "3">>, name |-> Some(<<"b">>)]
\* a candidate without a name
propNoName == [rxcui |-> <<"5">>, name |-> None]

\* drugGroup.conceptGroup of drugs.json: no group, a group without
\* conceptProperties, one candidate, an exact match behind another candidate,
\* an exact match in a later group, a candidate without a name, candidates
\* behind a group without conceptProperties
RxNormGroups ==
    { <<>>, << <<>> >>, << <<propB>> >>, << <<propB, propA>> >>, << <<propB>>, <<propA>> >>,
      << <<propNoName>> >>, << <<>>, <<propNoName, propB>> >> }

\* suggestionGroup.suggestionList.suggestion of spellingsuggestions.json
RxNormSuggestions == { <<>>, << <<"a">> >> }

\* features of the Geoapify geocoder / the array Nominatim returns (limit=1)
GeocodeResults(key) ==
    IF key
    THEN { <<>>, <<[lat |-> Num(1), lon |-> Num(1)]>>, <<[lat |-> Num(3), lon |-> Num(2)]>> }
    ELSE { <<>>, <<[lat |-> <<"1">>, lon |-> <<"1">>]>>, <<[lat |-> <<"3">>, lon |-> <<"2">>]>> }

\* the errors an axios call can throw
AxiosErrors == { AxiosError(NoResponse), AxiosError(HttpResponse(503)) }

MaxPlaces == 3

\* the lists of distinct facilities the places provider can return
PlacesResults ==
    { l \in UNION { [1..n -> pharmacies] : n \in 0..MaxPlaces } :
        \A i, j \in 1..Len(l) : i # j => l[i] # l[j] }

----------------------------------------------------------------------------
(* The handler of GET /api/search (server.js:160-212), one action per         *)
(* stretch of code between two awaits                                        *)

Respond(r, response) ==
    /\ responses' = [responses EXCEPT ![r] = Append(@, response)]
    /\ pc' = [pc EXCEPT ![r] = "done"]

Json(status, body) == [status |-> status, body |-> body]

Call(r, c) == calls' = [calls EXCEPT ![r] = Append(@, c)]

\* Mutant: the check of `location` is missing
ReceiveUncheckedLocation(r) ==
    /\ pc[r] = "idle"
    /\ LET med == medOf(query[r])
           key == cacheKey(med)
       IN IF med = <<>>
          THEN /\ Respond(r, Json(400, [Body({"error"}) EXCEPT !.error = "Missing parameter: med"]))
               /\ UNCHANGED <<drug, calls>>
          ELSE IF Has(cache.rxnorm, key)
          THEN /\ drug' = [drug EXCEPT ![r] = Some(cache.rxnorm[key])]
               /\ pc' = [pc EXCEPT ![r] = "drug"]
               /\ UNCHANGED <<calls, responses>>
          ELSE /\ Call(r, Upstream("drugs", "rxnorm", Null))
               /\ pc' = [pc EXCEPT ![r] = "rx1"]
               /\ UNCHANGED <<drug, responses>>
    /\ UNCHANGED <<GEOAPIFY_KEY, cache, query, geo, places, failure, pharmacies>>

\* server.js:162-173 and rxnormLookup up to its first await (47-51)
Receive(r) ==
    /\ pc[r] = "idle"
    /\ LET med == medOf(query[r])
           location == locationOf(query[r])
           key == cacheKey(med)
       IN IF med = <<>>
          THEN /\ Respond(r, Json(400, [Body({"error"}) EXCEPT !.error = "Missing parameter: med"]))
               /\ UNCHANGED <<drug, calls>>
          ELSE IF location = <<>>
          THEN /\ Respond(r, Json(400, [Body({"error"}) EXCEPT !.error = "Missing parameter: location"]))
               /\ UNCHANGED <<drug, calls>>
          ELSE IF Has(cache.rxnorm, key)
          THEN /\ drug' = [drug EXCEPT ![r] = Some(cache.rxnorm[key])]
               /\ pc' = [pc EXCEPT ![r] = "drug"]
               /\ UNCHANGED <<calls, responses>>
          ELSE /\ Call(r, Upstream("drugs", "rxnorm", Null))
               /\ pc' = [pc EXCEPT ![r] = "rx1"]
               /\ UNCHANGED <<drug, responses>>
    /\ UNCHANGED <<GEOAPIFY_KEY, cache, query, geo, places, failure, pharmacies>>

\* Mutant: a lookup without candidate is cached before the spelling query
RxNormAnswerCachesEarly(r, groups) ==
    /\ pc[r] = "rx1"
    /\ LET key == cacheKey(medOf(query[r]))
           best == bestInGroups(groups, 1, None, key)
       IN IF best = None
          THEN /\ Call(r, Upstream("spellingsuggestions", "rxnorm", Null))
               /\ cache' = [cache EXCEPT !.rxnorm = Set(@, key, notFoundPayload(<<>>))]
               /\ pc' = [pc EXCEPT ![r] = "rx2"]
               /\ UNCHANGED drug
          ELSE /\ cache' = [cache EXCEPT !.rxnorm = Set(@, key, foundPayload(best[1]))]
               /\ drug' = [drug EXCEPT ![r] = Some(foundPayload(best[1]))]
               /\ pc' = [pc EXCEPT ![r] = "drug"]
               /\ UNCHANGED calls
    /\ UNCHANGED <<GEOAPIFY_KEY, query, geo, places, failure, responses, pharmacies>>

\* rxnormLookup after drugs.json answered (server.js:52-64, 70-72)
RxNormAnswer(r, groups) ==
    /\ pc[r] = "rx1"
    /\ LET key == cacheKey(medOf(query[r]))
           best == bestInGroups(groups, 1, None, key)
       IN IF best = None
          THEN /\ Call(r, Upstream("spellingsuggestions", "rxnorm", Null))
               /\ pc' = [pc EXCEPT ![r] = "rx2"]
               /\ UNCHANGED <<cache, drug>>
          ELSE /\ cache' = [cache EXCEPT !.rxnorm = Set(@, key, foundPayload(best[1]))]
               /\ drug' = [drug EXCEPT ![r] = Some(foundPayload(best[1]))]
               /\ pc' = [pc EXCEPT ![r] = "drug"]
               /\ UNCHANGED calls
    /\ UNCHANGED <<GEOAPIFY_KEY, query, geo, places, failure, responses, pharmacies>>

\* rxnormLookup after spellingsuggestions.json answered (server.js:65-68)
SuggestionsAnswer(r, suggestions) ==
    /\ pc[r] = "rx2"
    /\ LET key == cacheKey(medOf(query[r])) IN
       /\ cache' = [cache EXCEPT !.rxnorm = Set(@, key, notFoundPayload(suggestions))]
       /\ drug' = [drug EXCEPT ![r] = Some(notFoundPayload(suggestions))]
    /\ pc' = [pc EXCEPT ![r] = "drug"]
    /\ UNCHANGED <<GEOAPIFY_KEY, query, geo, places, calls, failure, responses, pharmacies>>

\* an upstream call of request r throws err: the callee's catch wraps it
\* (server.js:73-75, 102-104, 153-155) and the handler's catch answers
\* (server.js:208-211)
Throw(r, message, err) ==
    /\ failure' = [failure EXCEPT ![r] = Some(err)]
    /\ Respond(r, catchResponse(upstreamError(message, err)))
    /\ UNCHANGED <<GEOAPIFY_KEY, cache, query, drug, geo, places, calls, pharmacies>>

RxNormFails(r, err) ==
    /\ pc[r] \in {"rx1", "rx2"}
    /\ Throw(r, "RxNorm lookup failed", err)

\* Mutant: the `return` in front of the 400 answer is missing, the handler
\* answers and goes on to geocode
AfterLookupNoReturn(r) ==
    /\ pc[r] = "drug"
    /\ LET d == drug[r][1]
           key == cacheKey(locationOf(query[r]))
           answer == Json(400, [Body({"error", "suggestions"}) EXCEPT
                                  !.error = "Invalid medicine name",
                                  !.suggestions = d.suggestions])
       IN /\ responses' = [responses EXCEPT ![r] =
                             IF d.rxcui = None \/ d.rxcui = Some(<<>>)
                             THEN Append(@, answer) ELSE @]
          /\ IF Has(cache.geocode, key)
             THEN /\ geo' = [geo EXCEPT ![r] = Some(cache.geocode[key])]
                  /\ pc' = [pc EXCEPT ![r] = "geocoded"]
                  /\ UNCHANGED calls
             ELSE /\ Call(r, Upstream("geocode", IF GEOAPIFY_KEY THEN "geoapify" ELSE "nominatim", Null))
                  /\ pc' = [pc EXCEPT ![r] = "geo"]
                  /\ UNCHANGED geo
    /\ UNCHANGED <<GEOAPIFY_KEY, cache, query, drug, places, failure, pharmacies>>

\* server.js:174-178 and geocodeText up to its await (79-84, 93-94)
AfterLookup(r) ==
    /\ pc[r] = "drug"
    /\ LET d == drug[r][1]
           key == cacheKey(locationOf(query[r]))
       IN IF d.rxcui = None \/ d.rxcui = Some(<<>>)
          THEN /\ Respond(r, Json(400, [Body({"error", "suggestions"}) EXCEPT
                                          !.error = "Invalid medicine name",
                                          !.suggestions = d.suggestions]))
               /\ UNCHANGED <<geo, calls>>
          ELSE IF Has(cache.geocode, key)
          THEN /\ geo' = [geo EXCEPT ![r] = Some(cache.geocode[key])]
               /\ pc' = [pc EXCEPT ![r] = "geocoded"]
               /\ UNCHANGED <<calls, responses>>
          ELSE /\ Call(r, Upstream("geocode", IF GEOAPIFY_KEY THEN "geoapify" ELSE "nominatim", Null))
               /\ pc' = [pc EXCEPT ![r] = "geo"]
               /\ UNCHANGED <<geo, responses>>
    /\ UNCHANGED <<GEOAPIFY_KEY, cache, query, drug, places, failure, pharmacies>>

\* Mutant: an empty result is cached, as a coordinate without values
GeocodeAnswerCachesAbsent(r, results) ==
    /\ pc[r] = "geo"
    /\ LET key == cacheKey(locationOf(query[r])) IN
       IF results = <<>>
       THEN /\ geo' = [geo EXCEPT ![r] = None]
            /\ cache' = [cache EXCEPT !.geocode = Set(@, key, [lat |-> Null, lon |-> Null])]
       ELSE /\ cache' = [cache EXCEPT
                           !.geocode = Set(@, key, geocodePayload(GEOAPIFY_KEY, results[1]))]
            /\ geo' = [geo EXCEPT ![r] = Some(geocodePayload(GEOAPIFY_KEY, results[1]))]
    /\ pc' = [pc EXCEPT ![r] = "geocoded"]
    /\ UNCHANGED <<GEOAPIFY_KEY, query, drug, places, calls, failure, responses, pharmacies>>

\* geocodeText after the geocoder answered (server.js:85-90, 95-101)
GeocodeAnswer(r, results) ==
    /\ pc[r] = "geo"
    /\ LET key == cacheKey(locationOf(query[r])) IN
       IF results = <<>>
       THEN /\ geo' = [geo EXCEPT ![r] = None]
            /\ UNCHANGED cache
       ELSE /\ cache' = [cache EXCEPT
                           !.geocode = Set(@, key, geocodePayload(GEOAPIFY_KEY, results[1]))]
            /\ geo' = [geo EXCEPT ![r] = Some(geocodePayload(GEOAPIFY_KEY, results[1]))]
    /\ pc' = [pc EXCEPT ![r] = "geocoded"]
    /\ UNCHANGED <<GEOAPIFY_KEY, query, drug, places, calls, failure, responses, pharmacies>>

GeocodeFails(r, err) ==
    /\ pc[r] = "geo"
    /\ Throw(r, "Geocoding failed", err)

\* Mutant: the facility search always goes to Overpass
AfterGeocodeOverpass(r) ==
    /\ pc[r] = "geocoded"
    /\ IF geo[r] = None
       THEN /\ Respond(r, Json(404, [Body({"error"}) EXCEPT !.error = "Location not found"]))
            /\ UNCHANGED calls
       ELSE /\ Call(r, Upstream("places", "overpass", radiusMeters(query[r])))
            /\ pc' = [pc EXCEPT ![r] = "places"]
            /\ UNCHANGED responses
    /\ UNCHANGED <<GEOAPIFY_KEY, cache, query, drug, geo, places, failure, pharmacies>>

\* server.js:179-181 and findPharmacies up to its await (108-111, 124-135)
AfterGeocode(r) ==
    /\ pc[r] = "geocoded"
    /\ IF geo[r] = None
       THEN /\ Respond(r, Json(404, [Body({"error"}) EXCEPT !.error = "Location not found"]))
            /\ UNCHANGED calls
       ELSE /\ Call(r, Upstream("places", IF GEOAPIFY_KEY THEN "geoapify" ELSE "overpass",
                                radiusMeters(query[r])))
            /\ pc' = [pc EXCEPT ![r] = "places"]
            /\ UNCHANGED responses
    /\ UNCHANGED <<GEOAPIFY_KEY, cache, query, drug, geo, places, failure, pharmacies>>

\* findPharmacies after the provider answered (server.js:112-121, 136-152) and
\* the rest of the handler (server.js:183-207)
PlacesAnswer(r, raw) ==
    /\ pc[r] = "places"
    /\ LET coord == geo[r][1]
           found == findPharmacies(GEOAPIFY_KEY, raw, coord.lat, coord.lon)
       IN /\ places' = [places EXCEPT ![r] = Some(found)]
          /\ Respond(r, Json(200, searchResult(query[r], drug[r][1], coord, found)))
    /\ UNCHANGED <<GEOAPIFY_KEY, cache, query, drug, geo, calls, failure, pharmacies>>

PlacesFails(r, err) ==
    /\ pc[r] = "places"
    /\ Throw(r, "Pharmacy search failed", err)

----------------------------------------------------------------------------
(* The requests and the provider data of a run *)

\* req.query: `has` are the parameters present in the URL
Query(has, med, location, radius_km, price_min, price_max, stock, sort) ==
    [has |-> has, med |-> med, location |-> location, radius_km |-> radius_km,
     price_min |-> price_min, price_max |-> price_max, stock |-> stock, sort |-> sort]

\* Geoapify features (properties.place_id, distance in meters, lat, lon) and
\* Overpass elements (id, lat / lon of a node, center of a way or relation).
\* A Geoapify feature is a GeoJSON point and always has its coordinates;
\* distance may be missing or 0.
Place(id, distance, lat, lon, centerLat, centerLon) ==
    [id |-> id, distance |-> distance, lat |-> lat, lon |-> lon,
     centerLat |-> centerLat, centerLon |-> centerLon]

Features ==
    << Place(StrId(<<"5", "a">>), Num(1234), Num(1), Num(2), Null, Null),
       Place(StrId(<<"c", "3">>), Null, Num(2), Num(1), Null, Null),
       Place(StrId(<<"a", "b">>), Num(0), Num(1), Num(1), Null, Null),
       Place(StrId(<<"5", "1", "f", "0", "c", "2", "a", "d", "9", "e">>), Num(450), Num(3), Num(3), Null, Null) >>

Elements ==
    << Place(NumId(2000000001), Null, Num(3), Num(3), Null, Null),
       Place(NumId(24), Null, Null, Null, Null, Null),
       Place(NumId(30), Null, Null, Null, Num(2), Num(2)),
       Place(NumId(36), Null, Num(0), Num(2), Null, Null) >>

Known(key, n) == { (IF key THEN Features ELSE Elements)[i] : i \in 1..n }

TypeOK ==
    /\ GEOAPIFY_KEY \in BOOLEAN
    /\ \A r \in Requests :
         pc[r] \in {"idle", "rx1", "rx2", "drug", "geo", "geocoded", "places", "done"}

Start(queries, n) ==
    /\ GEOAPIFY_KEY \in BOOLEAN
    /\ cache = [geocode |-> <<>>, rxnorm |-> <<>>]
    /\ query \in queries
    /\ pc = [r \in DOMAIN query |-> "idle"]
    /\ drug = [r \in DOMAIN query |-> None]
    /\ geo = [r \in DOMAIN query |-> None]
    /\ places = [r \in DOMAIN query |-> None]
    /\ calls = [r \in DOMAIN query |-> <<>>]
    /\ failure = [r \in DOMAIN query |-> None]
    /\ responses = [r \in DOMAIN query |-> <<>>]
    /\ pharmacies = Known(GEOAPIFY_KEY, n)

Next ==
    \/ \E r \in Requests : Receive(r)
    \/ \E r \in Requests, groups \in RxNormGroups : RxNormAnswer(r, groups)
    \/ \E r \in Requests, suggestions \in RxNormSuggestions : SuggestionsAnswer(r, suggestions)
    \/ \E r \in Requests, err \in AxiosErrors : RxNormFails(r, err)
    \/ \E r \in Requests : AfterLookup(r)
    \/ \E r \in Requests, results \in GeocodeResults(GEOAPIFY_KEY) : GeocodeAnswer(r, results)
    \/ \E r \in Requests, err \in AxiosErrors : GeocodeFails(r, err)
    \/ \E r \in Requests : AfterGeocode(r)
    \/ \E r \in Requests, raw \in PlacesResults : PlacesAnswer(r, raw)
    \/ \E r \in Requests, err \in AxiosErrors : PlacesFails(r, err)

\* Two overlapping requests that differ in their medicine and location texts
PipelineQueries ==
    { Query({"med", "location"}, med, location, <<>>, <<>>, <<>>, "", "") :
        med \in { <<" ">>, <<"a">>, <<" ", "A">> }, location \in { <<>>, <<"x">>, <<"X", " ">> } }

Init == Start([1..2 -> PipelineQueries], 1)

Spec == Init /\ [][Next]_vars

\* One request: every price filter with and without a stock filter, every
\* stock filter, every sort order, every kind of radius_km; an absent
\* parameter is None.
Param(name, opt) == IF opt = None THEN {} ELSE {name}
Value(opt, default) == IF opt = None THEN default ELSE opt[1]

SearchQuery(radius_km, price_min, price_max, stock, sort) ==
    Query({"med", "location"} \cup Param("radius_km", radius_km)
              \cup Param("price_min", price_min) \cup Param("price_max", price_max)
              \cup Param("stock", stock) \cup Param("sort", sort),
          <<"a">>, <<"x">>, Value(radius_km, <<>>), Value(price_min, <<>>),
          Value(price_max, <<>>), Value(stock, ""), Value(sort, ""))

RadiusValues ==
    { None, Some(<<>>), Some(<<"0">>), Some(<<"2", "5">>), Some(<<"1", "0", "0", "0">>),
      Some(<<"-", "5">>), Some(<<"a", "b", "c">>) }
PriceMinValues ==
    { None, Some(<<>>), Some(<<"0">>), Some(<<"1", "2">>), Some(<<"a", "b", "c">>) }
PriceMaxValues == { None, Some(<<"2", "6">>) }
StockValues == { None, Some("in_stock"), Some("low_stock"), Some("out_of_stock") }
SortValues == { None, Some("price_asc"), Some("price_desc"), Some("name") }

SearchQueries ==
    { SearchQuery(None, price_min, price_max, stock, None) :
        price_min \in PriceMinValues, price_max \in PriceMaxValues,
        stock \in { None, Some("low_stock") } }
    \cup { SearchQuery(None, None, price_max, stock, None) :
             price_max \in PriceMaxValues, stock \in StockValues }
    \cup { SearchQuery(None, None, None, stock, sort) :
             stock \in { None, Some("low_stock") }, sort \in SortValues }
    \cup { SearchQuery(radius_km, None, None, Some("any"), Some("distance")) :
             radius_km \in RadiusValues }

InitSearch == Start([{1} -> SearchQueries], 4)

SpecSearch == InitSearch /\ [][Next]_vars

\* Three requests for the same medicine and the same location, written
\* differently: the first two arrive at any time and can overlap in a lookup,
\* the third arrives after both have been answered
OverlapQueries ==
    { Query({"med", "location"}, med, location, <<>>, <<>>, <<>>, "", "") :
        med \in { <<"a">>, <<" ", "A">> }, location \in { <<"x">>, <<"X", " ">> } }

InitOverlap ==
    Start({ q \in [1..3 -> OverlapQueries] :
              /\ q[1].med = <<"a">> /\ q[1].location = <<"x">>
              /\ q[2].med = <<" ", "A">> /\ q[2].location = <<"X", " ">>
              /\ q[3].location = <<"x">> }, 1)

\* the moment request r can arrive
Arrives(r) == r = 3 => (pc[1] = "done" /\ pc[2] = "done")

NextOverlap ==
    \/ \E r \in Requests : Arrives(r) /\ Receive(r)
    \/ \E r \in Requests, groups \in RxNormGroups : RxNormAnswer(r, groups)
    \/ \E r \in Requests, suggestions \in RxNormSuggestions : SuggestionsAnswer(r, suggestions)
    \/ \E r \in Requests, err \in AxiosErrors : RxNormFails(r, err)
    \/ \E r \in Requests : AfterLookup(r)
    \/ \E r \in Requests, results \in GeocodeResults(GEOAPIFY_KEY) : GeocodeAnswer(r, results)
    \/ \E r \in Requests, err \in AxiosErrors : GeocodeFails(r, err)
    \/ \E r \in Requests : AfterGeocode(r)
    \/ \E r \in Requests, raw \in PlacesResults : PlacesAnswer(r, raw)
    \/ \E r \in Requests, err \in AxiosErrors : PlacesFails(r, err)

SpecOverlap == InitOverlap /\ [][NextOverlap]_vars

----------------------------------------------------------------------------
(* Properties *)

Sent(r) == responses[r] # <<>>
Response(r) == responses[r][1]

MissingMessages == { "Missing parameter: med", "Missing parameter: location" }
UpstreamMessages == { "RxNorm lookup failed", "Geocoding failed", "Pharmacy search failed" }

IsSearchResult(resp) ==
    /\ resp.status = 200
    /\ resp.body.keys = {"med", "location", "total", "items"}
IsMissingParameter(resp) ==
    /\ resp.body.keys = {"error"}
    /\ resp.body.error \in MissingMessages
IsInvalidMedicine(resp) ==
    /\ resp.body.keys = {"error", "suggestions"}
    /\ resp.body.error = "Invalid medicine name"
IsLocationNotFound(resp) ==
    /\ resp.body.keys = {"error"}
    /\ resp.body.error = "Location not found"
IsUpstreamFailure(resp) ==
    /\ "error" \in resp.body.keys
    /\ resp.body.error \in UpstreamMessages \cup {"Upstream error", "Unknown error"}

Outcomes(resp) ==
    { k \in {"SearchResult", "MissingParameter", "InvalidMedicine", "LocationNotFound",
             "UpstreamFailure"} :
        CASE k = "SearchResult" -> IsSearchResult(resp)
          [] k = "MissingParameter" -> IsMissingParameter(resp)
          [] k = "InvalidMedicine" -> IsInvalidMedicine(resp)
          [] k = "LocationNotFound" -> IsLocationNotFound(resp)
          [] OTHER -> IsUpstreamFailure(resp) }

HasCanonicalId(r) == drug[r] # None /\ drug[r][1].rxcui # None /\ drug[r][1].rxcui # Some(<<>>)

Apis(r) == [i \in 1..Len(calls[r]) |-> calls[r][i].api]
Called(r, api) == \E i \in 1..Len(calls[r]) : calls[r][i].api = api

\* C1: every request ends with exactly one outcome.  A request has answered
\* at most once, and exactly once when its handler has finished; the answer is
\* exactly one of SearchResult, MissingParameter, InvalidMedicine,
\* LocationNotFound, UpstreamFailure; it never carries both an error and items;
\* and a SearchResult is only built when the medicine, the location and the
\* facility search of the same request have all completed without a failure.
C1_ExactlyOneOutcome ==
    \A r \in Requests :
        /\ Len(responses[r]) <= 1
        /\ (pc[r] = "done") <=> Sent(r)
        /\ Sent(r) =>
             /\ Cardinality(Outcomes(Response(r))) = 1
             /\ ~ ({"error", "items"} \subseteq Response(r).body.keys)
             /\ IsSearchResult(Response(r)) =>
                  /\ HasCanonicalId(r) /\ geo[r] # None /\ places[r] # None
                  /\ failure[r] = None
                  /\ Response(r).body.total = Len(Response(r).body.items)
             /\ ~ IsSearchResult(Response(r)) =>
                  /\ places[r] = None
                  /\ Response(r).status # 200
                  /\ Response(r).body.items = <<>>

C1_Witness ==
    \E r1, r2 \in Requests :
        /\ Sent(r1) /\ IsSearchResult(Response(r1)) /\ Response(r1).body.items # <<>>
        /\ Sent(r2) /\ IsUpstreamFailure(Response(r2)) /\ HasCanonicalId(r2)

\* C2: the pipeline short-circuits in the order validate -> medicine ->
\* location -> facility search.  A request whose med or location is empty
\* after trimming makes no upstream call; the calls of a request are issued in
\* the order drugs, spellingsuggestions, geocode, places; a request whose
\* medicine resolved without a canonical id makes no geocode and no places
\* call; a request whose location is not resolved makes no places call; a
\* places call is only made once the same request holds a canonical id and a
\* coordinate.
CallOrder == <<"drugs", "spellingsuggestions", "geocode", "places">>
Rank(api) == CHOOSE i \in 1..4 : CallOrder[i] = api

C2_ShortCircuitOrder ==
    \A r \in Requests :
        /\ (medOf(query[r]) = <<>> \/ locationOf(query[r]) = <<>>) => calls[r] = <<>>
        /\ \A i, j \in 1..Len(calls[r]) : i < j => Rank(Apis(r)[i]) < Rank(Apis(r)[j])
        /\ (drug[r] # None /\ ~ HasCanonicalId(r)) =>
               ~ Called(r, "geocode") /\ ~ Called(r, "places")
        /\ geo[r] = None => ~ Called(r, "places")
        /\ Called(r, "geocode") => HasCanonicalId(r)
        /\ Called(r, "places") => HasCanonicalId(r) /\ geo[r] # None

C2_Witness ==
    \E r1, r2 \in Requests :
        /\ Apis(r1) = <<"drugs", "geocode", "places">>
        /\ Apis(r2) = <<"drugs", "spellingsuggestions">> /\ Sent(r2)
        /\ IsInvalidMedicine(Response(r2))

\* C3: every failed request carries the status code of its error kind: 400
\* when med or location is missing, 400 together with the resolver's
\* suggestions when the medicine has no canonical id, 404 when the location
\* is not found, 502 when the RxNorm, geocoding or pharmacy-search call failed.
C3_StatusOfErrorKind ==
    \A r \in Requests : pc[r] = "done" =>
        LET resp == Response(r) IN
        /\ (medOf(query[r]) = <<>> \/ locationOf(query[r]) = <<>>) =>
              resp.status = 400 /\ IsMissingParameter(resp)
        /\ (drug[r] # None /\ ~ HasCanonicalId(r)) =>
              /\ resp.status = 400 /\ IsInvalidMedicine(resp)
              /\ resp.body.suggestions = drug[r][1].suggestions
        /\ (HasCanonicalId(r) /\ geo[r] = None /\ failure[r] = None) =>
              resp.status = 404 /\ IsLocationNotFound(resp)
        /\ failure[r] # None => resp.status = 502 /\ IsUpstreamFailure(resp)
        /\ resp.status # 200 =>
              \/ medOf(query[r]) = <<>> \/ locationOf(query[r]) = <<>>
              \/ drug[r] # None /\ ~ HasCanonicalId(r)
              \/ HasCanonicalId(r) /\ geo[r] = None /\ failure[r] = None
              \/ failure[r] # None

C3_Witness ==
    \E r1, r2 \in Requests :
        /\ pc[r1] = "done" /\ IsInvalidMedicine(Response(r1))
        /\ Response(r1).body.suggestions # <<>>
        /\ pc[r2] = "done" /\ failure[r2] # None /\ failure[r2][1].response.present
        /\ Called(r2, "places")

FailedWithResponse(r) == failure[r] # None /\ failure[r][1].response.present

\* C4 as claimed: when the failed upstream call produced an HTTP response,
\* the answer carries that response's status code and payload, and it carries
\* 502 only when there was no upstream response.
C4_UpstreamStatusPreserved ==
    \A r \in Requests : failure[r] # None =>
        IF failure[r][1].response.present
        THEN /\ Response(r).status = failure[r][1].response.status
             /\ Response(r).body.data = failure[r][1].response.data
        ELSE Response(r).status = 502

\* C4 as amended: when an upstream call fails, with or without an HTTP
\* response, the answer has status 502 and a body of exactly status 502 and
\* the message naming the failed step; the upstream status code and payload
\* are not passed on.
FailedStep(r) ==
    CASE Apis(r)[Len(calls[r])] = "places" -> "Pharmacy search failed"
      [] Apis(r)[Len(calls[r])] = "geocode" -> "Geocoding failed"
      [] OTHER -> "RxNorm lookup failed"

C4_UpstreamFailureIs502 ==
    \A r \in Requests : failure[r] # None =>
        /\ Sent(r)
        /\ Response(r).status = 502
        /\ Response(r).body.keys = {"status", "error"}
        /\ Response(r).body.status = 502
        /\ Response(r).body.error = FailedStep(r)
        /\ Response(r).body.data = ""

C4_Witness ==
    \E r \in Requests :
        /\ FailedWithResponse(r)
        /\ failure[r][1].response.status = 503
        /\ Sent(r) /\ Response(r).status = 502

----------------------------------------------------------------------------
(* Properties of the successful response *)

SearchOk(r) == Sent(r) /\ Response(r).status = 200
Items(r) == Response(r).body.items

\* the facilities the provider returned to request r, with their synthesized
\* price and availability, in provider order
Facilities(r) == enrich(places[r][1], drug[r][1].rxcui[1])

ParamGiven(q, name) ==
    /\ name \in q.has
    /\ CASE name = "price_min" -> q.price_min # <<>>
         [] name = "price_max" -> q.price_max # <<>>
         [] name = "stock" -> q.stock # ""
         [] name = "sort" -> q.sort # ""
         [] OTHER -> q.radius_km # <<>>

\* price_usd is in cents, price_min and price_max in dollars
AtLeastMin(e, q) == Geq(e.price_usd, Times(Number(q.price_min), 100))
AtMostMax(e, q) == Leq(e.price_usd, Times(Number(q.price_max), 100))

PassesPrice(e, q) ==
    /\ ParamGiven(q, "price_min") => AtLeastMin(e, q)
    /\ ParamGiven(q, "price_max") => AtMostMax(e, q)

StockRequested(q) == IF ParamGiven(q, "stock") THEN q.stock ELSE "any"

PassesStock(e, q) ==
    StockRequested(q) \in {"in_stock", "low_stock"} => e.availability = StockRequested(q)

Range(seq) == { seq[i] : i \in 1..Len(seq) }

\* C5: in a successful response with stock = in_stock or low_stock the items
\* are exactly the facilities of that availability that pass the price
\* filters; with any other stock value (any, out_of_stock, none) the items are
\* exactly the facilities that pass the price filters.
C5_StockFilter ==
    \A r \in Requests : SearchOk(r) =>
        LET q == query[r]
            priced == { e \in Range(Facilities(r)) : PassesPrice(e, q) }
        IN IF StockRequested(q) \in {"in_stock", "low_stock"}
           THEN /\ \A i \in 1..Len(Items(r)) : Items(r)[i].availability = StockRequested(q)
                /\ Range(Items(r)) = { e \in priced : e.availability = StockRequested(q) }
           ELSE Range(Items(r)) = priced

C5_Witness ==
    \E r \in Requests :
        /\ SearchOk(r)
        /\ StockRequested(query[r]) = "low_stock"
        /\ ParamGiven(query[r], "price_max")
        /\ Items(r) # <<>>
        /\ \E e \in Range(Facilities(r)) : PassesPrice(e, query[r]) /\ e.availability = "in_stock"
        /\ \E e \in Range(Facilities(r)) : ~ PassesPrice(e, query[r]) /\ e.availability = "low_stock"

\* C6: in a successful response every item costs at least price_min when
\* price_min is given (0 included) and at most price_max when price_max is
\* given, and total equals both the number of items and the number of
\* facilities that satisfy every active filter.
C6_PriceFilterAndTotal ==
    \A r \in Requests : SearchOk(r) =>
        LET q == query[r] IN
        /\ \A i \in 1..Len(Items(r)) :
             /\ ParamGiven(q, "price_min") => AtLeastMin(Items(r)[i], q)
             /\ ParamGiven(q, "price_max") => AtMostMax(Items(r)[i], q)
        /\ Response(r).body.total = Len(Items(r))
        /\ Response(r).body.total =
             Cardinality({ i \in 1..Len(Facilities(r)) :
                             PassesPrice(Facilities(r)[i], q) /\ PassesStock(Facilities(r)[i], q) })

C6_Witness ==
    \E r \in Requests :
        /\ SearchOk(r)
        /\ ParamGiven(query[r], "price_min") /\ ParamGiven(query[r], "price_max")
        /\ Number(query[r].price_min) # Num(0)
        /\ Items(r) # <<>>
        /\ \E e \in Range(Facilities(r)) : ~ AtLeastMin(e, query[r])

\* price_min = 0 is a filter that is applied and keeps every facility
C6_WitnessZero ==
    \E r \in Requests :
        /\ SearchOk(r)
        /\ query[r].price_min = <<"0">>
        /\ Len(Items(r)) = 3

Present(d) == d.k = "num"
Absent(d) == d.k = "null"

\* present distances first and non-decreasing, absent distances last
DistanceOrdered(items) ==
    /\ \A i \in 1..Len(items) : Present(items[i].distance_km) \/ Absent(items[i].distance_km)
    /\ \A i, j \in 1..Len(items) : i < j =>
         /\ Absent(items[i].distance_km) => Absent(items[j].distance_km)
         /\ (Present(items[i].distance_km) /\ Present(items[j].distance_km)) =>
               items[i].distance_km.v <= items[j].distance_km.v

\* C7: with sort = distance or sort omitted, every item with a present
\* distance_km comes before every item with an absent one, and the present
\* distances are non-decreasing.
C7_DistanceSort ==
    \A r \in Requests :
        (SearchOk(r) /\ (~ ParamGiven(query[r], "sort") \/ query[r].sort = "distance")) =>
            DistanceOrdered(Items(r))

C7_Witness ==
    \E r \in Requests :
        /\ SearchOk(r)
        /\ ~ ParamGiven(query[r], "sort")
        /\ Len(Items(r)) = 3
        /\ Absent(places[r][1][1].distance_km)
        /\ Absent(places[r][1][2].distance_km)
        /\ Present(places[r][1][3].distance_km)
        /\ Present(Items(r)[1].distance_km)

Unrecognized(q) ==
    ParamGiven(q, "sort") /\ q.sort \notin {"price_asc", "price_desc", "distance"}

\* C8 as claimed: with an unrecognized sort value the items are ordered as for
\* sort = distance.
C8_UnrecognizedSortsByDistance ==
    \A r \in Requests : (SearchOk(r) /\ Unrecognized(query[r])) => DistanceOrdered(Items(r))

Position(r, id) == CHOOSE i \in 1..Len(places[r][1]) : places[r][1][i].id = id

\* C8 as amended: with an unrecognized sort value the items are not sorted:
\* they are the facilities that pass the filters, in the order the provider
\* returned them.
C8_UnrecognizedKeepsProviderOrder ==
    \A r \in Requests : (SearchOk(r) /\ Unrecognized(query[r])) =>
        LET Keep(e) == PassesPrice(e, query[r]) /\ PassesStock(e, query[r]) IN
        /\ Items(r) = SelectSeq(Facilities(r), Keep)
        /\ \A i, j \in 1..Len(Items(r)) : i < j =>
             Position(r, Items(r)[i].id) < Position(r, Items(r)[j].id)

C8_Witness ==
    \E r \in Requests :
        /\ SearchOk(r) /\ Unrecognized(query[r])
        /\ Len(Items(r)) >= 2
        /\ ~ DistanceOrdered(Items(r))

PlacesCalls(r) == { i \in 1..Len(calls[r]) : calls[r][i].api = "places" }

\* C9: for every radius_km the server can receive, the radius passed to the
\* facility search is a number of meters in [1000, 50000], and 10000 when
\* radius_km is absent.
C9_RadiusClamped ==
    \A r \in Requests : \A i \in PlacesCalls(r) :
        /\ calls[r][i].radius.k = "num"
        /\ calls[r][i].radius.v >= 1000 /\ calls[r][i].radius.v <= 50000
        /\ "radius_km" \notin query[r].has => calls[r][i].radius.v = 10000

\* The polynomial rolling hash  sum of code(s[i]) * 31^(n - i)  modulo 2^32,
\* term by term, on 16-bit halves.
ScaleU32(h, k) ==
    LET low == h.lo * k
        high == h.hi * k + (low \div Half)
    IN [hi |-> high % Half, lo |-> low % Half]
AddU32(a, b) ==
    LET low == a.lo + b.lo
        high == a.hi + b.hi + (low \div Half)
    IN [hi |-> high % Half, lo |-> low % Half]
RECURSIVE Pow31(_)
Pow31(n) == IF n = 0 THEN [hi |-> 0, lo |-> 1] ELSE ScaleU32(Pow31(n - 1), 31)
RECURSIVE PolySum(_, _)
PolySum(s, i) ==
    IF i > Len(s) THEN [hi |-> 0, lo |-> 0]
    ELSE AddU32(ScaleU32(Pow31(Len(s) - i), charCodeAt(s[i])), PolySum(s, i + 1))
PolyHash(s) == PolySum(s, 1)
\* h mod m for a small m, from the halves of h
Residue(h, m) == (h.hi * (Half % m) + h.lo) % m

PriceCents(rxcui, id) ==
    1000 + 100 * Residue(PolyHash(rxcui), 40) + Residue(PolyHash(String(id)), 200)

\* C10: the price of every item, in cents, is 1000 + 100 * (hash(drugId) mod
\* 40) + (hash(facilityId) mod 200) for the multiplier-31 rolling hash with
\* unsigned 32-bit wraparound; it lies in [10.00, 52.00) and is the same for
\* the same (drugId, facilityId) pair.
C10_PriceFormula ==
    \A r \in Requests : SearchOk(r) =>
        \A i \in 1..Len(Items(r)) :
            /\ Items(r)[i].price_usd = Num(PriceCents(drug[r][1].rxcui[1], Items(r)[i].id))
            /\ Items(r)[i].price_usd.v >= 1000 /\ Items(r)[i].price_usd.v < 5200

C10_Witness ==
    \E r \in Requests :
        /\ SearchOk(r)
        /\ \E i \in 1..Len(Items(r)) :
             /\ Len(String(Items(r)[i].id)) >= 7
             /\ PolyHash(String(Items(r)[i].id)).hi # 0
        /\ \E i \in 1..Len(Items(r)) : Len(String(Items(r)[i].id)) = 2

----------------------------------------------------------------------------
(* Availability *)

\* the class of the residue v = hash mod 100
StockClass(v) ==
    CASE v < 10 -> "out_of_stock"
      [] v >= 10 /\ v < 35 -> "low_stock"
      [] v >= 35 -> "in_stock"

\* C11: the availability of every facility of a response is exactly one of
\* out_of_stock, low_stock, in_stock, and it is the class of v = hash(id) mod
\* 100 (out_of_stock when v < 10, low_stock when 10 <= v < 35, in_stock when
\* v >= 35): a function of the facility id alone, whatever the drug, the
\* coordinate and the query of the request.
C11_StockPartition ==
    \A r \in Requests : SearchOk(r) =>
        \A i \in 1..Len(Items(r)) :
            LET v == Residue(PolyHash(String(Items(r)[i].id)), 100) IN
            /\ Items(r)[i].availability \in {"out_of_stock", "low_stock", "in_stock"}
            /\ Items(r)[i].availability = StockClass(v)

\* a response with a facility of each class, one of them on the boundary 35
C11_Witness ==
    \E r \in Requests :
        /\ SearchOk(r)
        /\ \E i \in 1..Len(Items(r)) :
             /\ Residue(PolyHash(String(Items(r)[i].id)), 100) = 35
             /\ Items(r)[i].availability = "in_stock"
        /\ \E i \in 1..Len(Items(r)) : Items(r)[i].availability = "low_stock"
        /\ \E i \in 1..Len(Items(r)) : Items(r)[i].availability = "out_of_stock"

----------------------------------------------------------------------------
(* The lookup caches *)

MedKey(r) == cacheKey(medOf(query[r]))
LocationKey(r) == cacheKey(locationOf(query[r]))

\* request r enters rxnormLookup in this step
StartsLookup(r) == pc[r] = "idle" /\ pc'[r] \in {"rx1", "drug"}

\* C12: once rxnormLookup has returned a resolution (found or not found) to
\* some request, every request that enters rxnormLookup afterwards with a name
\* of the same trimmed, lower-cased form gets that same resolution at once and
\* calls neither drugs.json nor spellingsuggestions.json.
C12_LaterLookupServedFromCache ==
    [][\A r1, r2 \in Requests :
          (r1 # r2 /\ drug[r1] # None /\ MedKey(r1) = MedKey(r2) /\ StartsLookup(r2)) =>
              /\ pc'[r2] = "drug"
              /\ drug'[r2] = drug[r1]
              /\ calls'[r2] = calls[r2]]_vars

\* C13: under any interleaving of requests a cache entry, once stored, is never
\* removed and its value never changes: every step keeps every key of both
\* caches with the value it had.
C13_CacheEntriesNeverChange ==
    [][\A m \in {"rxnorm", "geocode"} : \A k \in DOMAIN cache[m] :
          k \in DOMAIN cache'[m] /\ cache'[m][k] = cache[m][k]]_vars

\* the resolutions rxnormLookup has returned to a request or stored
Resolutions ==
    { drug[r][1] : r \in { x \in Requests : drug[x] # None } }
        \cup { cache.rxnorm[k] : k \in DOMAIN cache.rxnorm }

IdPresent(d) == d.rxcui # None
NamePresent(d) == d.name # None
NoSuggestions(d) == d.suggestions = <<>>

\* C14 as claimed: in every resolution returned or cached, the canonical id is
\* present if and only if the canonical name is present, if and only if the
\* suggestions are empty.
C14_IdIffNameIffNoSuggestions ==
    \A d \in Resolutions :
        /\ IdPresent(d) <=> NamePresent(d)
        /\ NamePresent(d) <=> NoSuggestions(d)

\* C14 as amended: in every resolution returned or cached, a present id or a
\* present name comes with empty suggestions, and a name is present only when
\* the id is; a resolution without id has no name.
C14_FoundHasNoSuggestions ==
    \A d \in Resolutions :
        /\ (IdPresent(d) \/ NamePresent(d)) => NoSuggestions(d)
        /\ NamePresent(d) => IdPresent(d)

\* the two payloads the claim names: no candidate and no suggestion (returned
\* to a request that called both queries), and a candidate without a name
\* (cached)
C14_Witness ==
    /\ \E r \in Requests :
         /\ Apis(r) = <<"drugs", "spellingsuggestions">> /\ drug[r] # None
         /\ ~ IdPresent(drug[r][1]) /\ ~ NamePresent(drug[r][1]) /\ NoSuggestions(drug[r][1])
    /\ \E k \in DOMAIN cache.rxnorm :
         IdPresent(cache.rxnorm[k]) /\ ~ NamePresent(cache.rxnorm[k])

\* the candidates of all groups, in provider order
RECURSIVE Candidates(_)
Candidates(groups) ==
    IF groups = <<>> THEN <<>> ELSE Head(groups) \o Candidates(Tail(groups))

ExactMatches(groups, key) ==
    { c \in Range(Candidates(groups)) : toLowerCase(StringOfName(c.name)) = key }

ResolvedAs(c) == [rxcui |-> Some(c.rxcui), name |-> c.name, suggestions |-> <<>>]

\* C15: when drugs.json answers a request that missed the cache: if some
\* candidate's name equals the key case-insensitively the request gets an
\* exact-match candidate; otherwise it gets the first candidate in provider
\* order; with no candidate at all the lookup goes on to the spelling query
\* and its result has no canonical id.  What the request gets is what is
\* cached under its key.
C15_ExactMatchElseFirst ==
    [][\A r \in Requests :
          /\ \A groups \in RxNormGroups : RxNormAnswer(r, groups) =>
               LET key == MedKey(r)
                   exact == ExactMatches(groups, key)
               IN IF Candidates(groups) = <<>>
                  THEN pc'[r] = "rx2" /\ drug'[r] = None /\ cache' = cache
                  ELSE /\ pc'[r] = "drug" /\ drug'[r] # None
                       /\ IF exact # {}
                          THEN \E c \in exact : drug'[r][1] = ResolvedAs(c)
                          ELSE drug'[r][1] = ResolvedAs(Candidates(groups)[1])
                       /\ cache'.rxnorm[key] = drug'[r][1]
          /\ (pc[r] = "rx2" /\ pc'[r] = "drug") =>
               /\ drug'[r] # None /\ drug'[r][1].rxcui = None
               /\ cache'.rxnorm[MedKey(r)] = drug'[r][1]]_vars

\* one request was given the exact match that came behind another candidate,
\* another the first candidate (nameless) when nothing matched, both from
\* their own drugs.json call
C15_Witness ==
    \E r1, r2 \in Requests :
        /\ Apis(r1) = <<"drugs">> /\ drug[r1] = Some(ResolvedAs(propA))
        /\ Apis(r2) = <<"drugs">> /\ drug[r2] = Some(ResolvedAs(propNoName))

\* request r enters geocodeText in this step
StartsGeocode(r) == pc[r] = "drug" /\ pc'[r] \in {"geo", "geocoded"}

\* C16: once geocodeText has returned a coordinate to some request, every
\* request that enters geocodeText afterwards with a text of the same trimmed,
\* lower-cased form gets that same coordinate at once and calls no geocoder,
\* with either provider.
C16_LaterGeocodeServedFromCache ==
    [][\A r1, r2 \in Requests :
          (r1 # r2 /\ geo[r1] # None /\ LocationKey(r1) = LocationKey(r2) /\ StartsGeocode(r2)) =>
              /\ pc'[r2] = "geocoded"
              /\ geo'[r2] = geo[r1]
              /\ calls'[r2] = calls[r2]]_vars

----------------------------------------------------------------------------
(* Providers *)

\* the geocoding and facility-search calls of all requests
LocationCalls ==
    UNION { { calls[r][i] : i \in { j \in 1..Len(calls[r]) :
                                      calls[r][j].api \in {"geocode", "places"} } } :
            r \in Requests }

\* C17: the provider never alternates within a process: at every moment all
\* geocoding and facility-search calls made so far by all requests went to
\* Geoapify when the credential is configured, and to Nominatim (geocoding)
\* and Overpass (facility search) when it is not; no call mixes the two.
C17_ProviderNeverAlternates ==
    /\ GEOAPIFY_KEY => \A c \in LocationCalls : c.provider = "geoapify"
    /\ ~ GEOAPIFY_KEY =>
         \A c \in LocationCalls :
             c.provider = (IF c.api = "geocode" THEN "nominatim" ELSE "overpass")
    /\ \/ \A c \in LocationCalls : c.provider = "geoapify"
       \/ \A c \in LocationCalls : c.provider \in {"nominatim", "overpass"}

\* two requests that each made their own geocoding and facility-search call
C17_Witness ==
    \E r1, r2 \in Requests :
        /\ r1 # r2
        /\ Called(r1, "geocode") /\ Called(r1, "places")
        /\ Called(r2, "geocode") /\ Called(r2, "places")
        /\ GEOAPIFY_KEY

\* an Overpass element has a latitude and a longitude, its own or its center's
HasCoordinate(e) ==
    /\ Coalesce(e.lat, e.centerLat).k = "num"
    /\ Coalesce(e.lon, e.centerLon).k = "num"

\* C18: when Overpass answers, every element is in the facility list, in
\* order; the distance of a facility is a number when its element has a
\* latitude and a longitude (0 included) and null, never 0, when it has not.
C18_DistanceAbsentIffNoCoordinate ==
    [][\A r \in Requests : \A raw \in PlacesResults :
          (~ GEOAPIFY_KEY /\ PlacesAnswer(r, raw)) =>
              LET found == places'[r][1] IN
              /\ Len(found) = Len(raw)
              /\ \A i \in 1..Len(raw) :
                   /\ found[i].id = raw[i].id
                   /\ HasCoordinate(raw[i]) => Present(found[i].distance_km)
                   /\ ~ HasCoordinate(raw[i]) => Absent(found[i].distance_km)]_vars

\* request r has failed in the call it made last
FailedIn(r, apis) ==
    /\ failure[r] # None
    /\ calls[r] # <<>>
    /\ calls[r][Len(calls[r])].api \in apis

RxNormApis == {"drugs", "spellingsuggestions"}

\* C19: a failing upstream call stores nothing.  The step in which a request
\* fails leaves both caches as they are; every entry of a cache is the result
\* some request of that key got from a completed lookup, never the trace of a
\* failed one; and when the only lookups made so far for a key have failed (in
\* the concept query, in the spelling query after an empty concept query, or
\* in the geocoder), the next request of that key queries the provider again.
C19_FailureStoresNothing ==
    [][/\ \A r \in Requests : (failure[r] = None /\ failure'[r] # None) => cache' = cache
       /\ \A k \in DOMAIN cache'.rxnorm :
            \E r \in Requests : MedKey(r) = k /\ drug'[r] = Some(cache'.rxnorm[k])
       /\ \A k \in DOMAIN cache'.geocode :
            \E r \in Requests : LocationKey(r) = k /\ geo'[r] = Some(cache'.geocode[k])
       /\ \A r1, r2 \in Requests :
            /\ ( /\ FailedIn(r1, RxNormApis) /\ MedKey(r1) = MedKey(r2)
                 /\ \A r3 \in Requests : MedKey(r3) = MedKey(r2) => drug[r3] = None
                 /\ StartsLookup(r2) ) =>
                   /\ pc'[r2] = "rx1"
                   /\ calls'[r2] = Append(calls[r2], Upstream("drugs", "rxnorm", Null))
            /\ ( /\ FailedIn(r1, {"geocode"}) /\ LocationKey(r1) = LocationKey(r2)
                 /\ \A r3 \in Requests : LocationKey(r3) = LocationKey(r2) => geo[r3] = None
                 /\ StartsGeocode(r2) ) =>
                   /\ pc'[r2] = "geo"
                   /\ Len(calls'[r2]) = Len(calls[r2]) + 1
                   /\ calls'[r2][Len(calls'[r2])].api = "geocode"]_vars

\* a request failed in the spelling query after an empty concept query and
\* a second one of the same medicine and location queried drugs.json itself
\* and failed in the geocoder: the geocode cache is empty and the rxnorm cache
\* holds what the second request resolved
C19_Witness ==
    \E r1, r2 \in Requests :
        /\ MedKey(r1) = MedKey(r2) /\ LocationKey(r1) = LocationKey(r2)
        /\ Apis(r1) = <<"drugs", "spellingsuggestions">> /\ FailedIn(r1, RxNormApis)
        /\ Apis(r2) = <<"drugs", "geocode">> /\ FailedIn(r2, {"geocode"})
        /\ cache.geocode = <<>>
        /\ DOMAIN cache.rxnorm = {MedKey(r2)} /\ drug[r2] = Some(cache.rxnorm[MedKey(r2)])

\* request r has been answered LocationNotFound
NotFound(r) == Sent(r) /\ Response(r).status = 404 /\ IsLocationNotFound(Response(r))

\* C20: an empty geocoder result is returned as absent and not cached.  The
\* step in which the geocoder answers with no result leaves the geocode cache
\* as it is and gives the request no coordinate; the request then ends in
\* LocationNotFound, and every request that ended so made its own geocoder
\* call; and while no request has got a coordinate for a location, each
\* further request for it calls the geocoder again.
C20_EmptyGeocodeNotCached ==
    [][\A r \in Requests :
          /\ GeocodeAnswer(r, <<>>) =>
               geo'[r] = None /\ cache' = cache /\ pc'[r] = "geocoded"
          /\ (pc[r] = "geocoded" /\ geo[r] = None /\ pc'[r] # "geocoded") =>
               /\ responses'[r] = <<Json(404, [Body({"error"}) EXCEPT !.error = "Location not found"])>>
               /\ cache' = cache
          /\ (Len(responses'[r]) > 0 /\ responses'[r][1].status = 404) =>
               /\ calls'[r] # <<>>
               /\ calls'[r][Len(calls'[r])].api = "geocode"
          /\ \A r1 \in Requests :
               ( /\ NotFound(r1) /\ LocationKey(r1) = LocationKey(r)
                 /\ \A r3 \in Requests : LocationKey(r3) = LocationKey(r) => geo[r3] = None
                 /\ StartsGeocode(r) ) =>
                   /\ pc'[r] = "geo"
                   /\ Len(calls'[r]) = Len(calls[r]) + 1
                   /\ calls'[r][Len(calls'[r])].api = "geocode"]_vars

\* two requests for the same location, written differently, both ended in
\* LocationNotFound after their own geocoder call, the second with its
\* medicine served from the cache; the geocode cache is empty
C20_Witness ==
    \E r1, r2 \in Requests :
        /\ LocationKey(r1) = LocationKey(r2) /\ locationOf(query[r1]) # locationOf(query[r2])
        /\ NotFound(r1) /\ Apis(r1) = <<"drugs", "geocode">>
        /\ NotFound(r2) /\ Apis(r2) = <<"geocode">>
        /\ cache.geocode = <<>>
        /\ cache.rxnorm # <<>>

====
